---- MODULE Spec2Model ----
(***************************************************************************)
(* Model of aws_config_reset.py: the glob matcher (matches), the retrying  *)
(* invoker (retry_call), the per-kind stage functions, region_reset and    *)
(* main.  Names and glob patterns are sequences of one-character strings,  *)
(* so that substring, prefix and glob tests are computed, not assumed.     *)
(***************************************************************************)
EXTENDS Integers, Sequences, FiniteSets, TLC

VARIABLES
    argv,          \* the command line given to main
    remote,        \* the provider's inventory, per region
    remote0,       \* the inventory before the run (never changed)
    faults,        \* the failures the provider answers with in this run
    pc,            \* main's position
    regions,       \* main's local `regions`
    idx,           \* index of the region main's loop is at
    stage,         \* region_reset's position
    rule_names,    \* region_reset's local `rule_names`
    deleted_rules, \* region_reset's local `deleted_rules` (Unbound until assigned)
    report,        \* region_reset's local `report`
    all_reports,   \* main's local `all_reports`
    calls,         \* every remote call issued so far, in order
    report_file,   \* content written by json.dump, or NoFile
    exit_code,     \* process exit status, or Running
    runs,          \* the runs of main completed before this one
    rc,            \* state of one retry_call invocation
    mt             \* one application of matches

vars == <<argv, remote, remote0, faults, pc, regions, idx, stage, rule_names,
          deleted_rules, report, all_reports, calls, report_file, exit_code,
          runs, rc, mt>>

mainVars == <<argv, remote, remote0, faults, pc, regions, idx, stage,
              rule_names, deleted_rules, report, all_reports, calls,
              report_file, exit_code, runs>>

----------------------------------------------------------------------------
(* Bounds *)

MaxPatterns == 2        \* longest include / exclude list given to matches
MaxRetriesArg == 5      \* largest max_retries value given to retry_call
MinRetriesArg == 0 - 1  \* smallest max_retries value given to retry_call

(* Program constants *)

DEFAULT_MAX_RETRIES == 5
DEFAULT_BACKOFF_SEC == 3
THREADS == 8

----------------------------------------------------------------------------
(* Strings *)

SecurityHubMarker == <<"S","e","c","u","r","i","t","y","H","u","b">>
SecurityHubPrefix == <<"s","e","c","u","r","i","t","y","h","u","b","-">>

N_rule_abc == <<"r","u","l","e","-","a","b","c">>
N_x == <<"x">>
N_y1 == <<"y","-","1">>
N_securityhub_x == SecurityHubPrefix \o <<"x">>
N_SecurityHub_x == SecurityHubMarker \o <<"-","x">>
N_my_SecurityHub == <<"m","y">> \o SecurityHubMarker

P_rule_star == <<"r","u","l","e","-","*">>
P_rule_abc == N_rule_abc
P_y_star == <<"y","-","*">>
P_star == <<"*">>
P_q == <<"?">>
P_sec_star == <<"s","e","c","*">>
P_Sec_star == <<"S","e","c","*">>

Names == {N_rule_abc, N_x, N_y1, N_securityhub_x, N_SecurityHub_x}
Patterns == {P_rule_star, P_rule_abc, P_y_star, P_star, P_q, P_sec_star,
             P_Sec_star}

\* F applied to the value of x, x being computed once
Let(x, F(_)) == CHOOSE v \in {F(a) : a \in {x}} : TRUE

SeqsUpTo(S, n) == UNION {[1..k -> S] : k \in 0..n}

\* `sub in s` of Python strings
Contains(s, sub) ==
    \E i \in 0..(Len(s) - Len(sub)) : SubSeq(s, i + 1, i + Len(sub)) = sub

\* s.startswith(p)
StartsWith(s, p) == Len(s) >= Len(p) /\ SubSeq(s, 1, Len(p)) = p

\* fnmatch.fnmatch(name, pat) for patterns made of literals, `*` and `?`
RECURSIVE FnMatch(_, _)
FnMatch(name, pat) ==
    IF pat = <<>> THEN name = <<>>
    ELSE IF Head(pat) = "*"
         THEN FnMatch(name, Tail(pat))
              \/ (name # <<>> /\ FnMatch(Tail(name), pat))
         ELSE /\ name # <<>>
              /\ (Head(pat) = "?" \/ Head(pat) = Head(name))
              /\ FnMatch(Tail(name), Tail(pat))

AnyMatch(name, patterns) ==
    \E i \in 1..Len(patterns) : FnMatch(name, patterns[i])

\* a slip that tests the exclude list only when no include list is given
matchesExcludeOnlyWithoutInclude(name, include_patterns, exclude_patterns) ==
    IF include_patterns # <<>>
    THEN AnyMatch(name, include_patterns)
    ELSE ~AnyMatch(name, exclude_patterns)

matches(name, include_patterns, exclude_patterns) ==
    IF include_patterns # <<>> /\ ~AnyMatch(name, include_patterns)
    THEN FALSE
    ELSE IF exclude_patterns # <<>> /\ AnyMatch(name, exclude_patterns)
         THEN FALSE
         ELSE TRUE

\* the rule stage's test for a Security Hub rule
IsPreserved(rule_name) == Contains(rule_name, SecurityHubMarker)

\* the report reader's test for a Security Hub rule
IsSecurityHubRule(rule_name) == StartsWith(rule_name, SecurityHubPrefix)

----------------------------------------------------------------------------
(* retry_call *)

Ok(v) == [kind |-> "ok", code |-> v, rate |-> FALSE]
ClientError(code, rate) == [kind |-> "client", code |-> code, rate |-> rate]
OtherError(rate) == [kind |-> "other", code |-> "RuntimeError", rate |-> rate]

Outcomes ==
    {Ok("v1"), Ok("v2"),
     ClientError("ResourceInUseException", FALSE),
     ClientError("ThrottlingException", FALSE),
     ClientError("TooManyRequestsException", FALSE),
     ClientError("RequestLimitExceeded", TRUE),
     ClientError("AccessDeniedException", FALSE),
     ClientError("NoSuchConfigRuleException", FALSE),
     OtherError(FALSE), OtherError(TRUE)}

TransientCodes ==
    {"ResourceInUseException", "ThrottlingException", "TooManyRequestsException"}

\* a slip that retries every ClientError
IsTransientAnyClientError(o) == o.kind = "client"

\* the condition of line 108, inside `except ClientError`
IsTransient(o) ==
    o.kind = "client" /\ (o.code \in TransientCodes \/ o.rate)

\* a slip that gives up one attempt early
HasAttemptsLeftOneShort(st) == st.attempt < st.max_retries - 1

HasAttemptsLeft(st) == st.attempt < st.max_retries

NoValue == [kind |-> "none", code |-> "None", rate |-> FALSE]

\* entering the for loop: range(1, max_retries + 1) may be empty
RetryStart(max_retries, backoff) ==
    [max_retries |-> max_retries, backoff |-> backoff, attempt |-> 1,
     calls |-> 0, sleeps |-> <<>>, outcomes |-> <<>>,
     status |-> IF max_retries >= 1 THEN "running" ELSE "fellthrough",
     value |-> NoValue]

\* a slip that sleeps the same time before every retry
RetryStepConstantBackoff(st, o) ==
    LET st1 == [st EXCEPT !.calls = @ + 1, !.outcomes = Append(@, o)] IN
    IF o.kind = "ok"
    THEN [st1 EXCEPT !.status = "returned", !.value = o]
    ELSE IF IsTransient(o) /\ HasAttemptsLeft(st)
         THEN [st1 EXCEPT !.sleeps = Append(@, st.backoff),
                          !.attempt = @ + 1]
         ELSE [st1 EXCEPT !.status = "raised", !.value = o]

\* one iteration of the loop, the wrapped call answering o
RetryStep(st, o) ==
    LET st1 == [st EXCEPT !.calls = @ + 1, !.outcomes = Append(@, o)] IN
    IF o.kind = "ok"
    THEN [st1 EXCEPT !.status = "returned", !.value = o]
    ELSE IF IsTransient(o) /\ HasAttemptsLeft(st)
         THEN [st1 EXCEPT !.sleeps = Append(@, st.backoff * st.attempt),
                          !.attempt = @ + 1]
         ELSE [st1 EXCEPT !.status = "raised", !.value = o]

\* the whole call, the wrapped call answering script[1], script[2], ...
\* (the last answer repeats)
RECURSIVE RetryRun(_, _)
RetryRun(st, script) ==
    IF st.status # "running" THEN st
    ELSE Let(RetryStep(st, script[IF st.calls + 1 <= Len(script)
                                  THEN st.calls + 1
                                  ELSE Len(script)]),
             LAMBDA next : RetryRun(next, script))

RetryCall(script, max_retries, backoff) ==
    RetryRun(RetryStart(max_retries, backoff), script)

----------------------------------------------------------------------------
(* The provider and the command line *)

N_default == <<"d","e","f","a","u","l","t">>

EnabledRegions == <<"r1", "r2">>
RegionIds == {"r1", "r2"}

Rule(name, owner) == [name |-> name, owner |-> owner]

\* rules come in the pages the inventory gives; of every other kind the
\* provider answers one listing call with at most PageLimit items and a
\* NextToken for the rest
PageLimit == 2

FirstPage(s) == SubSeq(s, 1, IF Len(s) <= PageLimit THEN Len(s) ELSE PageLimit)

InvEmpty ==
    [rules |-> << <<>> >>, remediations |-> <<>>, packs |-> <<>>,
     recorders |-> <<>>, channels |-> <<>>, aggregators |-> <<>>]

InvNoRules ==
    [rules |-> << <<>> >>, remediations |-> <<>>, packs |-> <<N_y1>>,
     recorders |-> <<N_default>>, channels |-> <<N_default>>,
     aggregators |-> <<>>]

InvFull ==
    [rules |-> << <<Rule(N_rule_abc, "CUSTOM_LAMBDA"),
                    Rule(N_securityhub_x, "AWS")>>,
                  <<Rule(N_SecurityHub_x, "AWS"), Rule(N_y1, "AWS"),
                    Rule(N_my_SecurityHub, "CUSTOM_LAMBDA")>> >>,
     remediations |-> <<N_rule_abc>>,
     packs |-> <<N_y1, N_x, N_rule_abc, N_default>>,
     recorders |-> <<N_default>>, channels |-> <<N_default>>,
     aggregators |-> <<N_x>>]

\* rules of the account's own only, none of them Security Hub's; the listing
\* gives the one rule on both of its pages
InvOwnRules ==
    [rules |-> << <<Rule(N_rule_abc, "CUSTOM_LAMBDA")>>,
                  <<Rule(N_rule_abc, "CUSTOM_LAMBDA")>> >>,
     remediations |-> <<>>, packs |-> <<>>, recorders |-> <<>>,
     channels |-> <<>>, aggregators |-> <<>>]

Inventories == {InvEmpty, InvNoRules, InvFull, InvOwnRules}

IncludeChoices == {<<>>, <<P_rule_star>>, <<P_star>>, <<P_sec_star, P_Sec_star>>}
ExcludeChoices == {<<>>, <<P_rule_abc>>}

MaxFaults == 1   \* most provider faults injected into one run

ListOps == {"describe_config_rules", "describe_remediation_configurations",
            "describe_conformance_packs", "describe_configuration_recorders",
            "describe_delivery_channels"}

Fault(op, name, how) == [op |-> op, name |-> name, how |-> how]

FaultPoints ==
    {Fault("session", <<r>>, "raise") : r \in RegionIds}
    \cup {Fault(op, <<"1">>, "raise") : op \in ListOps}
    \cup {Fault("describe_config_rules", <<"2">>, "raise")}
    \cup {Fault("delete_config_rule", n, h) :
            n \in {N_rule_abc, N_securityhub_x},
            h \in {"denied", "busy_once", "throttled"}}
    \cup {Fault("delete_config_rule", N_rule_abc, "gone")}
    \cup {Fault(op, N_y1, h) :
            op \in {"delete_conformance_pack"}, h \in {"denied", "busy_once"}}
    \cup {Fault("delete_remediation_configuration", N_rule_abc, h) :
            h \in {"denied", "busy_once"}}
    \cup {Fault(op, N_default, h) :
            op \in {"delete_configuration_recorder", "delete_delivery_channel"},
            h \in {"denied", "busy_once"}}

RECURSIVE PlansUpTo(_)
PlansUpTo(k) ==
    IF k = 0 THEN {{}}
    ELSE LET P == PlansUpTo(k - 1) IN
         P \cup {p \cup {f} : p \in P, f \in FaultPoints}

FaultPlans == PlansUpTo(MaxFaults)

Argvs ==
    [dry_run : BOOLEAN, target : {"region", "all", "none"},
     include : IncludeChoices, exclude : ExcludeChoices]

\* argparse: --dry-run is a store_true flag, --include / --exclude default []
ParseArgs(av) ==
    [dry_run |-> av.dry_run,
     region |-> IF av.target = "region" THEN "r1" ELSE "None",
     all_regions |-> av.target = "all",
     include |-> av.include, exclude |-> av.exclude]

args == ParseArgs(argv)

\* no list of rule names the code can build
Unbound == << <<"<unbound>">> >>
Running == 0 - 1

Call(region, op, name) == [region |-> region, op |-> op, name |-> name]

RuleOp == "delete_config_rule"
RemediationOp == "delete_remediation_configuration"
PackOp == "delete_conformance_pack"
ChannelOp == "delete_delivery_channel"

\* the call the recorder pass would issue if it stopped recorders
RecorderOpStop == "stop_configuration_recorder"

RecorderOp == "delete_configuration_recorder"

MutatingOps == {RuleOp, RemediationOp, PackOp, ChannelOp, RecorderOp,
                RecorderOpStop, "delete_configuration_aggregator"}

RECURSIVE Flatten(_)
Flatten(pages) ==
    IF pages = <<>> THEN <<>> ELSE Head(pages) \o Flatten(Tail(pages))

Range(s) == {s[i] : i \in DOMAIN s}

MapSeq(s, F(_)) == [i \in DOMAIN s |-> F(s[i])]

\* the artifact was deleted by someone else after it was listed
Gone(op, name) == Fault(op, name, "gone") \in faults

\* the provider's answers to successive attempts of one delete call
AnswerScript(op, name, present) ==
    LET normal == IF present /\ ~Gone(op, name) THEN Ok("deleted")
                  ELSE ClientError("NoSuchResourceException", FALSE) IN
    IF Fault(op, name, "denied") \in faults
    THEN <<ClientError("AccessDeniedException", FALSE)>>
    ELSE IF Fault(op, name, "throttled") \in faults
    THEN <<ClientError("ThrottlingException", FALSE)>>
    ELSE IF Fault(op, name, "busy_once") \in faults
    THEN <<ClientError("ResourceInUseException", FALSE), normal>>
    ELSE <<normal>>

\* `for x in names: try: retry_call(delete, x); deleted.append(x) except: print`
RECURSIVE DeleteLoop(_, _, _, _)
DeleteLoop(region, op, names, acc) ==
    IF names = <<>> THEN acc
    ELSE LET n == Head(names)
             ok(r) == r.status # "raised"
         IN Let(RetryCall(AnswerScript(op, n, n \in acc.present),
                          DEFAULT_MAX_RETRIES, DEFAULT_BACKOFF_SEC),
                LAMBDA r :
                  Let([deleted |-> IF ok(r) THEN Append(acc.deleted, n)
                                   ELSE acc.deleted,
                       calls |-> acc.calls
                                 \o [i \in 1..r.calls |-> Call(region, op, n)],
                       present |-> IF r.status = "returned" \/ Gone(op, n)
                                   THEN acc.present \ {n}
                                   ELSE acc.present],
                      LAMBDA next : DeleteLoop(region, op, Tail(names), next)))

\* a slip that lets the first delete that fails for good end the loop
DeleteAllStopAtFailure(region, op, names, present) ==
    LET bad == {i \in DOMAIN names :
                   \E h \in {"denied", "throttled", "gone"} :
                       Fault(op, names[i], h) \in faults}
        cut == IF bad = {} THEN Len(names)
               ELSE CHOOSE i \in bad : \A j \in bad : i <= j
    IN DeleteLoop(region, op, SubSeq(names, 1, cut),
                  [deleted |-> <<>>, calls |-> <<>>, present |-> present])

DeleteAll(region, op, names, present) ==
    DeleteLoop(region, op, names,
               [deleted |-> <<>>, calls |-> <<>>, present |-> present])

----------------------------------------------------------------------------
(* The stage functions.  Each returns the list it returns in the code       *)
(* (result), the remote calls it issued (calls) and the names the provider  *)
(* still holds afterwards (present).                                        *)

Raises(op, tag) == Fault(op, tag, "raise") \in faults

Outcome(result, cs, present) ==
    [result |-> result, calls |-> cs, present |-> present]

PageNames(pages) == MapSeq(Flatten(pages), LAMBDA r : r.name)

list_config_rules(region, inv) ==
    LET pages == inv.rules
        failAt == IF Raises("describe_config_rules", <<"1">>) THEN 1
                  ELSE IF Raises("describe_config_rules", <<"2">>)
                          /\ Len(pages) >= 2 THEN 2
                  ELSE 0
        n == IF failAt > 0 THEN failAt ELSE Len(pages)
    IN [names |-> IF failAt > 0 THEN <<>> ELSE PageNames(pages),
        calls |-> [i \in 1..n |-> Call(region, "describe_config_rules", <<>>)],
        security_hub_rules |->
            IF failAt > 0 THEN <<>>
            ELSE MapSeq(SelectSeq(Flatten(pages),
                           LAMBDA r : r.owner = "AWS" /\ IsPreserved(r.name)),
                        LAMBDA r : r.name)]

\* a slip that leaves the include / exclude test out of the rule stage
safe_rulesUnfiltered(names, include_patterns, exclude_patterns) ==
    SelectSeq(names, LAMBDA n : ~IsPreserved(n))

safe_rules(names, include_patterns, exclude_patterns) ==
    SelectSeq(names, LAMBDA n : ~IsPreserved(n)
                                /\ matches(n, include_patterns, exclude_patterns))

delete_config_rules(region, names, include_patterns, exclude_patterns, dry_run, present) ==
    LET safe == safe_rules(names, include_patterns, exclude_patterns)
        d == DeleteAll(region, RuleOp, safe, present)
    IN IF names = <<>> \/ safe = <<>> THEN Outcome(<<>>, <<>>, present)
       ELSE IF dry_run THEN Outcome(safe, <<>>, present)
       ELSE Outcome(d.deleted, d.calls, d.present)

\* a slip that drops the dry-run branch of the remediation stage
delete_remediation_configurationsLive(region, dry_run, inv) ==
    LET listing == <<Call(region, "describe_remediation_configurations", <<>>)>>
        present == Range(inv.remediations)
        d == DeleteAll(region, RemediationOp, FirstPage(inv.remediations), present)
    IN IF Raises("describe_remediation_configurations", <<"1">>)
       THEN Outcome(<<>>, listing, present)
       ELSE Outcome(d.deleted, listing \o d.calls, d.present)

delete_remediation_configurations(region, dry_run, inv) ==
    LET listing == <<Call(region, "describe_remediation_configurations", <<>>)>>
        configs == FirstPage(inv.remediations)
        present == Range(inv.remediations)
        d == DeleteAll(region, RemediationOp, configs, present)
    IN IF Raises("describe_remediation_configurations", <<"1">>)
       THEN Outcome(<<>>, listing, present)
       ELSE IF configs = <<>> THEN Outcome(<<>>, listing, present)
       ELSE IF dry_run THEN Outcome(configs, listing, present)
       ELSE Outcome(d.deleted, listing \o d.calls, d.present)

delete_conformance_packs(region, dry_run, inv) ==
    LET listing == <<Call(region, "describe_conformance_packs", <<>>)>>
        packs == FirstPage(inv.packs)
        present == Range(inv.packs)
        d == DeleteAll(region, PackOp, packs, present)
    IN IF Raises("describe_conformance_packs", <<"1">>)
       THEN Outcome(<<>>, listing, present)
       ELSE IF packs = <<>> THEN Outcome(<<>>, listing, present)
       ELSE IF dry_run THEN Outcome(packs, listing, present)
       ELSE Outcome(d.deleted, listing \o d.calls, d.present)

Item(kind, name) == [kind |-> kind, name |-> name]

\* a slip that leaves the recorders out of a dry run's plan
recorder_passSilentPlan(region, dry_run, recorders) ==
    LET d == DeleteAll(region, RecorderOp, recorders, Range(recorders))
    IN IF dry_run
       THEN Outcome(<<>>, <<>>, Range(recorders))
       ELSE Outcome(MapSeq(d.deleted, LAMBDA n : Item("recorder", n)),
                    d.calls, d.present)

\* the recorder loop of delete_config_recorders_and_channels
recorder_pass(region, dry_run, recorders) ==
    LET d == DeleteAll(region, RecorderOp, recorders, Range(recorders))
    IN IF dry_run
       THEN Outcome(MapSeq(recorders, LAMBDA n : Item("recorder", n)), <<>>,
                    Range(recorders))
       ELSE Outcome(MapSeq(d.deleted, LAMBDA n : Item("recorder", n)),
                    d.calls, d.present)

\* a slip that deletes delivery channels in a dry run too
channel_passLive(region, dry_run, channels) ==
    LET d == DeleteAll(region, ChannelOp, channels, Range(channels))
    IN Outcome(MapSeq(d.deleted, LAMBDA n : Item("channel", n)),
               d.calls, d.present)

\* the delivery-channel loop of delete_config_recorders_and_channels
channel_pass(region, dry_run, channels) ==
    LET d == DeleteAll(region, ChannelOp, channels, Range(channels))
    IN IF dry_run
       THEN Outcome(MapSeq(channels, LAMBDA n : Item("channel", n)), <<>>,
                    Range(channels))
       ELSE Outcome(MapSeq(d.deleted, LAMBDA n : Item("channel", n)),
                    d.calls, d.present)

\* a slip that goes on to the delivery channels it knows of when their
\* listing raised
delete_config_recorders_and_channelsUnlisted(region, dry_run, inv) ==
    LET listR == <<Call(region, "describe_configuration_recorders", <<>>)>>
        listC == <<Call(region, "describe_delivery_channels", <<>>)>>
        rp == recorder_pass(region, dry_run, inv.recorders)
        cp == channel_pass(region, dry_run, inv.channels)
    IN IF Raises("describe_configuration_recorders", <<"1">>)
       THEN [result |-> <<>>, calls |-> listR,
             recorders |-> Range(inv.recorders), channels |-> Range(inv.channels)]
       ELSE [result |-> rp.result \o cp.result,
             calls |-> listR \o rp.calls \o listC \o cp.calls,
             recorders |-> rp.present, channels |-> cp.present]

\* result: deleted_items; recorders / channels: names the provider still holds
delete_config_recorders_and_channels(region, dry_run, inv) ==
    LET listR == <<Call(region, "describe_configuration_recorders", <<>>)>>
        listC == <<Call(region, "describe_delivery_channels", <<>>)>>
        rp == recorder_pass(region, dry_run, inv.recorders)
        cp == channel_pass(region, dry_run, inv.channels)
    IN IF Raises("describe_configuration_recorders", <<"1">>)
       THEN [result |-> <<>>, calls |-> listR,
             recorders |-> Range(inv.recorders), channels |-> Range(inv.channels)]
       ELSE IF Raises("describe_delivery_channels", <<"1">>)
       THEN [result |-> rp.result, calls |-> listR \o rp.calls \o listC,
             recorders |-> rp.present, channels |-> Range(inv.channels)]
       ELSE [result |-> rp.result \o cp.result,
             calls |-> listR \o rp.calls \o listC \o cp.calls,
             recorders |-> rp.present, channels |-> cp.present]

Keep(s, present) == SelectSeq(s, LAMBDA n : n \in present)

KeepRules(pages, present) ==
    [i \in DOMAIN pages |-> SelectSeq(pages[i], LAMBDA r : r.name \in present)]

----------------------------------------------------------------------------
(* main and region_reset *)

\* the report of line 307, without its time.time() stamp
EmptyReport(region) ==
    [region |-> region, rules |-> <<>>, remediations |-> <<>>,
     conformance_packs |-> <<>>, recorders_channels |-> <<>>, notes |-> <<>>]

\* no list of reports the code can build
NoFile == <<EmptyReport("<no file>")>>

IdleRetry == RetryStart(0, 0)
IdleMatch == [name |-> <<>>, include |-> <<>>, exclude |-> <<>>,
              done |-> TRUE, result |-> TRUE]

region == regions[idx]

InRegion(s) == pc = "loop" /\ idx <= Len(regions) /\ stage = s

Init ==
    /\ argv \in Argvs
    /\ remote \in [RegionIds -> Inventories]
    /\ remote0 = remote
    /\ faults \in FaultPlans
    /\ pc = "start"
    /\ regions = <<>>
    /\ idx = 1
    /\ stage = "enter"
    /\ rule_names = <<>>
    /\ deleted_rules = Unbound
    /\ report = EmptyReport("None")
    /\ all_reports = <<>>
    /\ calls = <<>>
    /\ report_file = NoFile
    /\ exit_code = Running
    /\ runs = <<>>
    /\ rc = IdleRetry
    /\ mt = IdleMatch

\* main, lines 359-374: choose the regions or exit with status 1
MainStart ==
    /\ pc = "start"
    /\ IF args.all_regions
       THEN /\ regions' = EnabledRegions
            /\ pc' = "loop"
            /\ UNCHANGED exit_code
       ELSE IF args.region # "None"
       THEN /\ regions' = <<args.region>>
            /\ pc' = "loop"
            /\ UNCHANGED exit_code
       ELSE /\ pc' = "exited"
            /\ exit_code' = 1
            /\ UNCHANGED regions
    /\ UNCHANGED <<runs, argv, remote, remote0, faults, idx, stage, rule_names,
                   deleted_rules, report, all_reports, calls, report_file,
                   rc, mt>>

\* a slip that lets a failing bc_client end main's loop over the regions
RegionEnterAbort ==
    /\ InRegion("enter")
    /\ IF Raises("session", <<region>>)
       THEN /\ idx' = Len(regions) + 1
            /\ UNCHANGED <<stage, report>>
       ELSE /\ report' = EmptyReport(region)
            /\ stage' = "list_rules"
            /\ UNCHANGED idx
    /\ rule_names' = <<>>
    /\ deleted_rules' = Unbound
    /\ UNCHANGED <<runs, argv, remote, remote0, faults, pc, regions, all_reports,
                   calls, report_file, exit_code, rc, mt>>

\* region_reset, lines 304-315; a raising bc_client leaves region_reset and is
\* caught by main's loop, lines 389-390
RegionEnter ==
    /\ InRegion("enter")
    /\ IF Raises("session", <<region>>)
       THEN /\ idx' = idx + 1
            /\ UNCHANGED <<stage, report>>
       ELSE /\ report' = EmptyReport(region)
            /\ stage' = "list_rules"
            /\ UNCHANGED idx
    /\ rule_names' = <<>>
    /\ deleted_rules' = Unbound
    /\ UNCHANGED <<runs, argv, remote, remote0, faults, pc, regions, all_reports,
                   calls, report_file, exit_code, rc, mt>>

\* region_reset, line 319
ListRules ==
    /\ InRegion("list_rules")
    /\ LET l == list_config_rules(region, remote[region]) IN
       /\ rule_names' = l.names
       /\ calls' = calls \o l.calls
    /\ stage' = "rules"
    /\ UNCHANGED <<runs, argv, remote, remote0, faults, pc, regions, idx,
                   deleted_rules, report, all_reports, report_file, exit_code,
                   rc, mt>>

\* region_reset, lines 320-322
RulesStage ==
    /\ InRegion("rules")
    /\ stage' = "remediations"
    /\ IF rule_names # <<>>
       THEN LET o == delete_config_rules(region, rule_names, args.include,
                                         args.exclude, args.dry_run,
                                         Range(PageNames(remote[region].rules)))
            IN /\ deleted_rules' = o.result
               /\ report' = [report EXCEPT !.rules = o.result]
               /\ calls' = calls \o o.calls
               /\ remote' = [remote EXCEPT ![region].rules =
                                              KeepRules(@, o.present)]
       ELSE UNCHANGED <<deleted_rules, report, calls, remote>>
    /\ UNCHANGED <<runs, argv, remote0, faults, pc, regions, idx, rule_names,
                   all_reports, report_file, exit_code, rc, mt>>

\* region_reset, lines 325-326
RemediationStage ==
    /\ InRegion("remediations")
    /\ LET o == delete_remediation_configurations(region, args.dry_run,
                                                  remote[region])
       IN /\ report' = [report EXCEPT !.remediations = o.result]
          /\ calls' = calls \o o.calls
          /\ remote' = [remote EXCEPT ![region].remediations =
                                         Keep(@, o.present)]
    /\ stage' = "packs"
    /\ UNCHANGED <<runs, argv, remote0, faults, pc, regions, idx, rule_names,
                   deleted_rules, all_reports, report_file, exit_code, rc, mt>>

\* region_reset, lines 328-329
PackStage ==
    /\ InRegion("packs")
    /\ LET o == delete_conformance_packs(region, args.dry_run, remote[region])
       IN /\ report' = [report EXCEPT !.conformance_packs = o.result]
          /\ calls' = calls \o o.calls
          /\ remote' = [remote EXCEPT ![region].packs = Keep(@, o.present)]
    /\ stage' = "infra"
    /\ UNCHANGED <<runs, argv, remote0, faults, pc, regions, idx, rule_names,
                   deleted_rules, all_reports, report_file, exit_code, rc, mt>>

\* a slip that adds an aggregator stage no option gates
InfraStageAndAggregators ==
    /\ InRegion("infra")
    /\ LET o == delete_config_recorders_and_channels(region, args.dry_run,
                                                     remote[region])
           a == IF args.dry_run THEN <<>>
                ELSE MapSeq(remote[region].aggregators,
                            LAMBDA n : Call(region,
                                            "delete_configuration_aggregator", n))
       IN /\ report' = [report EXCEPT !.recorders_channels = o.result]
          /\ calls' = calls \o o.calls \o a
          /\ remote' = [remote EXCEPT
                          ![region].recorders = Keep(@, o.recorders),
                          ![region].channels = Keep(@, o.channels),
                          ![region].aggregators =
                              IF args.dry_run THEN @ ELSE <<>>]
    /\ stage' = "summary"
    /\ UNCHANGED <<runs, argv, remote0, faults, pc, regions, idx, rule_names,
                   deleted_rules, all_reports, report_file, exit_code, rc, mt>>

\* region_reset, lines 331-332
InfraStage ==
    /\ InRegion("infra")
    /\ LET o == delete_config_recorders_and_channels(region, args.dry_run,
                                                     remote[region])
       IN /\ report' = [report EXCEPT !.recorders_channels = o.result]
          /\ calls' = calls \o o.calls
          /\ remote' = [remote EXCEPT
                          ![region].recorders = Keep(@, o.recorders),
                          ![region].channels = Keep(@, o.channels)]
    /\ stage' = "summary"
    /\ UNCHANGED <<runs, argv, remote0, faults, pc, regions, idx, rule_names,
                   deleted_rules, all_reports, report_file, exit_code, rc, mt>>

\* a slip that lets the error of the summary line leave region_reset
RegionReturnRaise ==
    /\ InRegion("summary")
    /\ IF deleted_rules = Unbound
       THEN UNCHANGED <<report, all_reports>>
       ELSE /\ report' = report
            /\ all_reports' = Append(all_reports, report)
    /\ idx' = idx + 1
    /\ stage' = "enter"
    /\ UNCHANGED <<runs, argv, remote, remote0, faults, pc, regions, rule_names,
                   deleted_rules, calls, report_file, exit_code, rc, mt>>

\* region_reset, lines 335-345 (reading an unassigned deleted_rules raises
\* inside the try), and main, lines 384-387
RegionReturn ==
    /\ InRegion("summary")
    /\ LET returned == IF deleted_rules = Unbound
                       THEN [report EXCEPT !.notes = Append(@, "Error")]
                       ELSE report
       IN /\ report' = returned
          /\ all_reports' = Append(all_reports, returned)
    /\ idx' = idx + 1
    /\ stage' = "enter"
    /\ UNCHANGED <<runs, argv, remote, remote0, faults, pc, regions, rule_names,
                   deleted_rules, calls, report_file, exit_code, rc, mt>>

\* main, lines 393-403
MainSave ==
    /\ pc = "loop"
    /\ idx > Len(regions)
    /\ pc' = "done"
    /\ exit_code' = 0
    /\ report_file' = all_reports
    /\ UNCHANGED <<runs, argv, remote, remote0, faults, regions, idx, stage,
                   rule_names, deleted_rules, report, all_reports, calls,
                   rc, mt>>

Next ==
    \/ MainStart
    \/ RegionEnter
    \/ ListRules
    \/ RulesStage
    \/ RemediationStage
    \/ PackStage
    \/ InfraStage
    \/ RegionReturn
    \/ MainSave

Spec == Init /\ [][Next]_vars

\* the runs without filters
InitLive ==
    /\ Init
    /\ argv.include = <<>>
    /\ argv.exclude = <<>>
    /\ remote["r2"] = InvNoRules

\* the position of main and region_reset; every step of Next changes it
position == <<pc, idx, stage>>

\* main is one sequential thread: while a step is possible it is taken
SpecLive == InitLive /\ [][Next]_vars /\ WF_position(Next)

----------------------------------------------------------------------------
(* retry_call on its own, the wrapped call answering freely *)

IdleMain ==
    /\ argv = [dry_run |-> TRUE, target |-> "none", include |-> <<>>,
               exclude |-> <<>>]
    /\ remote = [r \in RegionIds |-> InvEmpty]
    /\ remote0 = remote
    /\ faults = {}
    /\ pc = "idle"
    /\ regions = <<>>
    /\ idx = 1
    /\ stage = "enter"
    /\ rule_names = <<>>
    /\ deleted_rules = Unbound
    /\ report = EmptyReport("None")
    /\ all_reports = <<>>
    /\ calls = <<>>
    /\ report_file = NoFile
    /\ exit_code = Running
    /\ runs = <<>>

Backoffs == {1, DEFAULT_BACKOFF_SEC}

InitRetry ==
    /\ IdleMain
    /\ mt = IdleMatch
    /\ \E m \in MinRetriesArg..MaxRetriesArg, b \in Backoffs :
          rc = RetryStart(m, b)

\* one pass through the body of the for loop, lines 102-114
RetryAttempt ==
    /\ rc.status = "running"
    /\ \E o \in Outcomes : rc' = RetryStep(rc, o)
    /\ UNCHANGED <<mainVars, mt>>

NextRetry == RetryAttempt

SpecRetry == InitRetry /\ [][NextRetry]_vars

----------------------------------------------------------------------------
(* matches on its own *)

PatternLists == SeqsUpTo(Patterns, MaxPatterns)

InitMatch ==
    /\ IdleMain
    /\ rc = IdleRetry
    /\ \E n \in Names \cup {<<>>}, inc \in PatternLists, exc \in PatternLists :
          mt = [name |-> n, include |-> inc, exclude |-> exc,
                done |-> FALSE, result |-> FALSE]

ApplyMatches ==
    /\ ~mt.done
    /\ mt' = [mt EXCEPT !.done = TRUE,
                        !.result = matches(mt.name, mt.include, mt.exclude)]
    /\ UNCHANGED <<mainVars, rc>>

NextMatch == ApplyMatches

SpecMatch == InitMatch /\ [][NextMatch]_vars

----------------------------------------------------------------------------
(* Properties *)

Mutating(i) == calls[i].op \in MutatingOps

IssuedIn(r, op, name) ==
    \E i \in DOMAIN calls :
        calls[i].region = r /\ calls[i].op = op /\ calls[i].name = name

Reported == Range(all_reports) \cup {report}

\* C1: no rule whose name carries the reserved Security Hub prefix gets a
\* delete call or is listed among the deleted / planned rules, whatever the
\* include and exclude lists and in dry-run or live mode.
C1_ProtectionInvariant ==
    /\ \A i \in DOMAIN calls :
          calls[i].op = "delete_config_rule" => ~IsSecurityHubRule(calls[i].name)
    /\ \A rep \in Reported : \A k \in DOMAIN rep.rules :
          ~IsSecurityHubRule(rep.rules[k])

\* C2: in a dry run only listing calls are issued, no delete or stop, and the
\* provider's inventory stays what it was before the run.
C2_DryRunPurity ==
    args.dry_run =>
        /\ \A i \in DOMAIN calls : ~Mutating(i) /\ calls[i].op \in ListOps
        /\ remote = remote0

C2_Witness ==
    /\ args.dry_run
    /\ pc = "done"
    /\ \E k \in DOMAIN report_file :
          /\ report_file[k].rules # <<>>
          /\ report_file[k].remediations # <<>>
          /\ report_file[k].conformance_packs # <<>>
          /\ \E a, b \in DOMAIN report_file[k].recorders_channels :
                /\ report_file[k].recorders_channels[a].kind = "recorder"
                /\ report_file[k].recorders_channels[b].kind = "channel"

\* C3: a command line that does not choose a mode runs dry: without
\* --dry-run on the command line no mutating call is issued.
C3_DryRunIsDefault ==
    ~argv.dry_run => \A i \in DOMAIN calls : ~Mutating(i)

StageRank(op) ==
    CASE op \in {"delete_configuration_recorder", "stop_configuration_recorder"} -> 1
      [] op = "delete_delivery_channel" -> 2
      [] op = "delete_conformance_pack" -> 3
      [] op = "delete_remediation_configuration" -> 4
      [] op = "delete_config_rule" -> 5
      [] OTHER -> 6

\* C4: within one region the mutating calls come in the order recorder,
\* delivery channel, conformance pack, remediation binding, rule, aggregator.
C4_StageOrder ==
    \A i, j \in DOMAIN calls :
        (i < j /\ calls[i].region = calls[j].region /\ Mutating(i) /\ Mutating(j))
            => StageRank(calls[i].op) <= StageRank(calls[j].op)

full_disable == FALSE

ChannelsListed(r) ==
    /\ ~Raises("describe_configuration_recorders", <<"1">>)
    /\ ~Raises("describe_delivery_channels", <<"1">>)

C7_GlobFilter ==
    mt.done =>
        /\ mt.result =
              (/\ (mt.include = <<>>
                   \/ \E p \in Range(mt.include) : FnMatch(mt.name, p))
               /\ ~\E p \in Range(mt.exclude) : FnMatch(mt.name, p))
        /\ (mt.name = N_rule_abc /\ mt.include = <<P_rule_star>>
            /\ mt.exclude = <<>>) => mt.result
        /\ (mt.name = N_rule_abc /\ mt.include = <<P_rule_star>>
            /\ mt.exclude = <<P_rule_abc>>) => ~mt.result
        /\ (mt.name = N_x /\ mt.include = <<>> /\ mt.exclude = <<P_y_star>>)
              => mt.result
        /\ (mt.name = N_y1 /\ mt.include = <<>> /\ mt.exclude = <<P_y_star>>)
              => ~mt.result

C7_Witness ==
    /\ mt.done
    /\ mt.include # <<>>
    /\ \E p \in Range(mt.include) : FnMatch(mt.name, p)
    /\ \E p \in Range(mt.exclude) : FnMatch(mt.name, p)
    /\ ~mt.result

TransientFailure(o) ==
    /\ o.kind = "client"
    /\ \/ o.code \in {"ResourceInUseException", "ThrottlingException",
                      "TooManyRequestsException"}
       \/ o.rate

TerminalFailure(o) == o.kind # "ok" /\ ~TransientFailure(o)

AllTransient(os) == \A k \in DOMAIN os : TransientFailure(os[k])

\* C8: with max_retries >= 1, transient failures on every attempt give
\* exactly max_retries attempts and then the failure is raised; when attempt
\* k succeeds after k-1 transient failures there are exactly k attempts and
\* that attempt's value is returned.
C8_RetryBound ==
    /\ rc.calls = Len(rc.outcomes)
    /\ rc.max_retries >= 1 => rc.calls <= rc.max_retries
    /\ (rc.max_retries >= 1 /\ AllTransient(rc.outcomes)) =>
          IF rc.calls < rc.max_retries
          THEN rc.status = "running"
          ELSE /\ rc.calls = rc.max_retries
               /\ rc.status = "raised"
               /\ rc.value = rc.outcomes[rc.calls]
    /\ \A k \in DOMAIN rc.outcomes :
          (rc.outcomes[k].kind = "ok" /\ AllTransient(SubSeq(rc.outcomes, 1, k - 1)))
              => /\ rc.calls = k
                 /\ rc.status = "returned"
                 /\ rc.value = rc.outcomes[k]

C8_Witness ==
    /\ rc.max_retries = 5
    /\ rc.calls = 5
    /\ AllTransient(rc.outcomes)
    /\ rc.status = "raised"

C8_WitnessClears ==
    /\ rc.max_retries = 5
    /\ rc.calls = 3
    /\ AllTransient(SubSeq(rc.outcomes, 1, 2))
    /\ rc.status = "returned"

\* C9: a failure that is not transient is the last attempt: it is raised to
\* the caller with its own error, with no retry and no sleep after it.
C9_TerminalNotRetried ==
    \A k \in DOMAIN rc.outcomes :
        TerminalFailure(rc.outcomes[k]) =>
            /\ k = Len(rc.outcomes)
            /\ rc.calls = k
            /\ rc.status = "raised"
            /\ rc.value = rc.outcomes[k]
            /\ Len(rc.sleeps) = k - 1

C9_Witness ==
    /\ rc.status = "raised"
    /\ rc.calls = 3
    /\ rc.max_retries = 5
    /\ rc.outcomes[3] = ClientError("AccessDeniedException", FALSE)

\* C10: when main is done the written report holds exactly one region report
\* for each requested region.
C10_OneReportPerRegion ==
    pc = "done" =>
        /\ Len(report_file) = Len(regions)
        /\ \A i \in DOMAIN regions :
              Cardinality({k \in DOMAIN report_file :
                              report_file[k].region = regions[i]}) = 1

----------------------------------------------------------------------------
(* Running main again on what the previous run left *)

MaxRuns == 2   \* most runs of main in a row

\* a later invocation of main on the same account: the command line may
\* differ in --dry-run only
Rerun ==
    /\ pc = "done"
    /\ Len(runs) + 1 < MaxRuns
    /\ runs' = Append(runs, [argv |-> argv, calls |-> calls,
                             report_file |-> report_file,
                             before |-> remote0, after |-> remote])
    /\ \E d \in BOOLEAN : argv' = [argv EXCEPT !.dry_run = d]
    /\ remote0' = remote
    /\ pc' = "start"
    /\ regions' = <<>>
    /\ idx' = 1
    /\ stage' = "enter"
    /\ rule_names' = <<>>
    /\ deleted_rules' = Unbound
    /\ report' = EmptyReport("None")
    /\ all_reports' = <<>>
    /\ calls' = <<>>
    /\ report_file' = NoFile
    /\ exit_code' = Running
    /\ UNCHANGED <<remote, faults, rc, mt>>

InitRerun ==
    /\ Init
    /\ argv.target = "region"
    /\ remote["r2"] = InvEmpty

NextRerun == Next \/ Rerun

SpecRerun == InitRerun /\ [][NextRerun]_vars

----------------------------------------------------------------------------
(* Properties, continued *)

CallsOf(r) == SelectSeq(calls, LAMBDA c : c.region = r)

\* what region_reset does in region r when it runs on the inventory the run
\* started with, in a run of its own
SoloRun(r, dry_run) ==
    LET inv == remote0[r]
        present == Range(PageNames(inv.rules))
        l == list_config_rules(r, inv)
        ro == IF l.names # <<>>
              THEN delete_config_rules(r, l.names, args.include, args.exclude,
                                       dry_run, present)
              ELSE Outcome(<<>>, <<>>, present)
        rem == delete_remediation_configurations(r, dry_run, inv)
        pk == delete_conformance_packs(r, dry_run, inv)
        infra == delete_config_recorders_and_channels(r, dry_run, inv)
    IN [report |-> [region |-> r, rules |-> ro.result,
                    remediations |-> rem.result,
                    conformance_packs |-> pk.result,
                    recorders_channels |-> infra.result,
                    notes |-> IF l.names = <<>> THEN <<"Error">> ELSE <<>>],
        calls |-> l.calls \o ro.calls \o rem.calls \o pk.calls \o infra.calls]

\* C11: a region whose session cannot be built issues no call, and every
\* other requested region issues the calls and gets the one report it would
\* in a run of its own.
C11_RegionIsolation ==
    pc = "done" =>
        \A i \in DOMAIN regions :
            IF Raises("session", <<regions[i]>>)
            THEN CallsOf(regions[i]) = <<>>
            ELSE /\ CallsOf(regions[i]) = SoloRun(regions[i], args.dry_run).calls
                 /\ Cardinality({k \in DOMAIN report_file :
                                   report_file[k].region = regions[i]}) = 1
                 /\ \A k \in DOMAIN report_file :
                       report_file[k].region = regions[i]
                           => report_file[k] = SoloRun(regions[i], args.dry_run).report

C11_Witness ==
    /\ pc = "done"
    /\ regions = <<"r1", "r2">>
    /\ Raises("session", <<"r1">>)
    /\ ~args.dry_run
    /\ report_file = <<SoloRun("r2", FALSE).report>>
    /\ report_file[1].rules # <<>>
    /\ IssuedIn("r2", "delete_config_rule", N_rule_abc)

Protected(name) == IsPreserved(name) \/ IsSecurityHubRule(name)

RuleNamesAt(inventory, r) == Range(PageNames(inventory[r].rules))

\* C12: when a first live run has deleted every rule that is not protected,
\* a second live run on a healthy provider issues no rule delete call,
\* reports no rule and records no error for the region.
C12_IdempotentRerun ==
    (runs # <<>> /\ ~runs[1].argv.dry_run /\ ~args.dry_run /\ faults = {}) =>
        \A k \in DOMAIN all_reports :
            LET r == all_reports[k].region IN
            (/\ \E n \in RuleNamesAt(runs[1].before, r) : ~Protected(n)
             /\ \A n \in RuleNamesAt(remote0, r) : Protected(n))
                => /\ all_reports[k].rules = <<>>
                   /\ \A i \in DOMAIN calls :
                         calls[i].region = r => calls[i].op # "delete_config_rule"
                   /\ all_reports[k].notes = <<>>

\* the report lists the artifact of call c among the deleted ones of its kind
Recorded(rep, c) ==
    CASE c.op = "delete_config_rule" -> c.name \in Range(rep.rules)
      [] c.op = "delete_remediation_configuration" ->
            c.name \in Range(rep.remediations)
      [] c.op = "delete_conformance_pack" ->
            c.name \in Range(rep.conformance_packs)
      [] c.op = "delete_configuration_recorder" ->
            Item("recorder", c.name) \in Range(rep.recorders_channels)
      [] c.op = "delete_delivery_channel" ->
            Item("channel", c.name) \in Range(rep.recorders_channels)
      [] OTHER -> TRUE

\* the artifacts of the report's region whose delete failed for good
FailedArtifacts(rep) ==
    {[op |-> c.op, name |-> c.name] :
        c \in {d \in Range(CallsOf(rep.region)) : ~Recorded(rep, d)}}

\* C13: a report holds an error entry for each artifact whose delete failed.
C13_EveryFailureRecorded ==
    \A k \in DOMAIN all_reports :
        Len(all_reports[k].notes) >= Cardinality(FailedArtifacts(all_reports[k]))

\* a listing call of region r that raised
ListingFailed(r) ==
    \/ \E op \in ListOps : Raises(op, <<"1">>) /\ IssuedIn(r, op, <<>>)
    \/ /\ Raises("describe_config_rules", <<"2">>)
       /\ Len(remote0[r].rules) >= 2
       /\ IssuedIn(r, "describe_config_rules", <<>>)

\* some error came up in the run so far
ErrorProduced ==
    \/ \E i \in DOMAIN regions : i < idx /\ Raises("session", <<regions[i]>>)
    \/ \E k \in DOMAIN all_reports :
          \/ all_reports[k].notes # <<>>
          \/ FailedArtifacts(all_reports[k]) # {}
          \/ ListingFailed(all_reports[k].region)

\* C14: a run that processed its regions exits non-zero exactly when an
\* error came up in some region.
C14_ExitStatusReflectsErrors ==
    pc = "done" => ((exit_code # 0) <=> ErrorProduced)

\* C15: a dry run and a live run whose deletes all succeed, over the same
\* inventory and with the same filters, never write the same report.
C15_PlanDistinguishable ==
    (/\ pc = "done"
     /\ runs # <<>>
     /\ runs[1].argv.dry_run
     /\ ~args.dry_run
     /\ faults = {}
     /\ \E i \in DOMAIN calls : Mutating(i))
        => report_file # runs[1].report_file

\* main's parser defines no option that asks for aggregators to be deleted
delete_aggregators == FALSE

\* C16: an aggregator gets a delete call only in a run that asked for
\* aggregators to be deleted; in any other run every aggregator stays.
C16_AggregatorGated ==
    /\ (\E i \in DOMAIN calls : calls[i].op = "delete_configuration_aggregator")
          => delete_aggregators
    /\ ~delete_aggregators =>
          \A r \in RegionIds : remote[r].aggregators = remote0[r].aggregators

C16_Witness ==
    /\ pc = "done"
    /\ ~args.dry_run
    /\ ~delete_aggregators
    /\ remote0["r1"].aggregators = <<N_x>>
    /\ remote["r1"].aggregators = <<N_x>>
    /\ IssuedIn("r1", "delete_delivery_channel", N_default)
    /\ IssuedIn("r1", "delete_config_rule", N_rule_abc)

Started(i) == i < idx \/ (i = idx /\ pc = "loop" /\ stage # "enter")
Finished(i) == i < idx \/ pc = "done"
InFlight == {i \in DOMAIN regions : Started(i) /\ ~Finished(i)}

\* C17: the regions run as concurrent tasks on a pool of THREADS workers:
\* never more than THREADS regions are in flight, and a requested region is
\* kept waiting behind a running one only while THREADS regions are in flight.
C17_BoundedFanOut ==
    /\ Cardinality(InFlight) <= THREADS
    /\ \A i \in DOMAIN regions :
          (pc = "loop" /\ ~Started(i) /\ InFlight # {})
              => Cardinality(InFlight) = THREADS

\* C18: a report's notes hold an error only if a remote call of that region
\* failed; a region without rules whose other stages succeed has no note.
C18_NotesOnlyOnFailure ==
    \A k \in DOMAIN all_reports :
        all_reports[k].notes # <<>>
            => \/ ListingFailed(all_reports[k].region)
               \/ FailedArtifacts(all_reports[k]) # {}

\* C19: retry_call returns normally only after it called the operation, and
\* then with the value the operation's last call returned, for every
\* max_retries.
C19_AlwaysInvokes ==
    rc.status \in {"returned", "fellthrough"} =>
        /\ rc.calls >= 1
        /\ rc.value = rc.outcomes[rc.calls]
        /\ rc.value.kind = "ok"

\* C20: every region that region_reset went through had each of its five
\* kinds listed, whatever failed in the stages before.
C20_StageFailureNeverStops ==
    \A k \in DOMAIN all_reports : \A op \in ListOps :
        IssuedIn(all_reports[k].region, op, <<>>)

----------------------------------------------------------------------------
(* Properties of the stages *)

\* page p of the rule listing of region r was answered
RulePageReturned(r, p) ==
    /\ p \in DOMAIN remote0[r].rules
    /\ ~Raises("describe_config_rules", <<"1">>)
    /\ p >= 2 => ~Raises("describe_config_rules", <<"2">>)

\* the names the listing calls of one kind answered in region r in this run
Returned(r, op) ==
    CASE op = RuleOp ->
            UNION {Range(PageNames(<<remote0[r].rules[p]>>)) :
                      p \in {q \in DOMAIN remote0[r].rules : RulePageReturned(r, q)}}
      [] op = RemediationOp ->
            IF Raises("describe_remediation_configurations", <<"1">>) THEN {}
            ELSE Range(FirstPage(remote0[r].remediations))
      [] op = PackOp ->
            IF Raises("describe_conformance_packs", <<"1">>) THEN {}
            ELSE Range(FirstPage(remote0[r].packs))
      [] op = RecorderOp ->
            IF Raises("describe_configuration_recorders", <<"1">>) THEN {}
            ELSE Range(remote0[r].recorders)
      [] op = ChannelOp ->
            IF Raises("describe_configuration_recorders", <<"1">>)
               \/ Raises("describe_delivery_channels", <<"1">>) THEN {}
            ELSE Range(remote0[r].channels)
      [] OTHER -> {}

\* the candidates of one kind that survive the stage's filter in region r
Survivors(r, op) ==
    IF op = RuleOp
    THEN IF \A p \in DOMAIN remote0[r].rules : RulePageReturned(r, p)
         THEN {n \in Returned(r, op) :
                  ~IsPreserved(n) /\ matches(n, args.include, args.exclude)}
         ELSE {}
    ELSE Returned(r, op)

\* the calls the provider gets from one retry_call of a delete
AttemptsFor(op, n) ==
    IF Fault(op, n, "denied") \in faults THEN 1
    ELSE IF Fault(op, n, "throttled") \in faults THEN DEFAULT_MAX_RETRIES
    ELSE IF Fault(op, n, "busy_once") \in faults THEN 2
    ELSE 1

DeleteCalls(r, op, n) ==
    Cardinality({i \in DOMAIN calls : calls[i] = Call(r, op, n)})

StageOps == {RuleOp, RemediationOp, PackOp, RecorderOp, ChannelOp}

\* what the listing of one kind answers in region r when it does not fail
Listing(r, op) ==
    CASE op = RuleOp -> PageNames(remote0[r].rules)
      [] op = RemediationOp -> FirstPage(remote0[r].remediations)
      [] op = PackOp -> FirstPage(remote0[r].packs)
      [] op = RecorderOp -> remote0[r].recorders
      [] op = ChannelOp -> remote0[r].channels
      [] OTHER -> <<>>

\* how often the listing names n, each time a candidate of its own
Occurrences(r, op, n) ==
    Cardinality({i \in DOMAIN Listing(r, op) : Listing(r, op)[i] = n})

\* C21: in a live run every surviving candidate of every stage gets the one
\* retried delete of its stage pass (one call, more only while the provider
\* answers busy or throttled), whichever earlier delete of the stage failed; a
\* name the listing gives twice is two candidates.
C21_ArtifactFailureNeverStopsStage ==
    ~args.dry_run =>
        \A k \in DOMAIN all_reports : \A op \in StageOps :
            \A n \in Survivors(all_reports[k].region, op) :
                DeleteCalls(all_reports[k].region, op, n)
                    = Occurrences(all_reports[k].region, op, n) * AttemptsFor(op, n)

C21_Witness ==
    /\ ~args.dry_run
    /\ Fault(RuleOp, N_rule_abc, "denied") \in faults
    /\ \E k \in DOMAIN all_reports :
          /\ all_reports[k].region = "r1"
          /\ N_rule_abc \notin Range(all_reports[k].rules)
          /\ N_y1 \in Range(all_reports[k].rules)
    /\ \E i, j \in DOMAIN calls :
          /\ i < j
          /\ calls[i] = Call("r1", RuleOp, N_rule_abc)
          /\ calls[j] = Call("r1", RuleOp, N_y1)

\* the listing of one kind raised in region r
ListingOfFailed(r, op) ==
    CASE op = RuleOp ->
            \/ Raises("describe_config_rules", <<"1">>)
            \/ Raises("describe_config_rules", <<"2">>) /\ Len(remote0[r].rules) >= 2
      [] op = RemediationOp -> Raises("describe_remediation_configurations", <<"1">>)
      [] op = PackOp -> Raises("describe_conformance_packs", <<"1">>)
      [] op = RecorderOp -> Raises("describe_configuration_recorders", <<"1">>)
      [] op = ChannelOp ->
            /\ ~Raises("describe_configuration_recorders", <<"1">>)
            /\ Raises("describe_delivery_channels", <<"1">>)
      [] OTHER -> FALSE

\* the names a report lists for one kind
ReportedNames(rep, op) ==
    CASE op = RuleOp -> Range(rep.rules)
      [] op = RemediationOp -> Range(rep.remediations)
      [] op = PackOp -> Range(rep.conformance_packs)
      [] op = RecorderOp ->
            {it.name : it \in {x \in Range(rep.recorders_channels) : x.kind = "recorder"}}
      [] op = ChannelOp ->
            {it.name : it \in {x \in Range(rep.recorders_channels) : x.kind = "channel"}}
      [] OTHER -> {}

\* C22: when the listing of a kind fails in a region, no artifact of that
\* kind gets a delete call or is reported there, and the region's report
\* holds a note of the failure.
C22_ListingFailureRecorded ==
    \A k \in DOMAIN all_reports : \A op \in StageOps :
        ListingOfFailed(all_reports[k].region, op) =>
            /\ \A i \in DOMAIN calls :
                  calls[i].region = all_reports[k].region => calls[i].op # op
            /\ ReportedNames(all_reports[k], op) = {}
            /\ all_reports[k].notes # <<>>

\* every artifact of one kind the provider holds in region r, on whatever page
Inventory(r, op) ==
    CASE op = RuleOp -> Range(PageNames(remote0[r].rules))
      [] op = RemediationOp -> Range(remote0[r].remediations)
      [] op = PackOp -> Range(remote0[r].packs)
      [] OTHER -> {}

InScope(op, n) ==
    op = RuleOp => (~IsPreserved(n) /\ matches(n, args.include, args.exclude))

\* C23: when the listing of a paginated kind does not fail, every artifact
\* of that kind the provider holds, on the first page or a later one, is a
\* candidate: a dry run reports it and a live run sends it a delete call.
C23_PaginationComplete ==
    \A k \in DOMAIN all_reports : \A op \in {RuleOp, RemediationOp, PackOp} :
        ~ListingOfFailed(all_reports[k].region, op) =>
            \A n \in Inventory(all_reports[k].region, op) :
                InScope(op, n) =>
                    IF args.dry_run
                    THEN n \in ReportedNames(all_reports[k], op)
                    ELSE DeleteCalls(all_reports[k].region, op, n) >= 1

\* C24: a rule that is gone by the time its delete call is made (the call
\* answers not-found) is listed among the region's deleted rules like one
\* whose delete succeeded.
C24_AlreadyDeletedIsSuccess ==
    ~args.dry_run =>
        \A k \in DOMAIN all_reports :
            \A n \in Survivors(all_reports[k].region, RuleOp) :
                (/\ Gone(RuleOp, n)
                 /\ DeleteCalls(all_reports[k].region, RuleOp, n) >= 1
                 /\ Fault(RuleOp, n, "denied") \notin faults
                 /\ Fault(RuleOp, n, "throttled") \notin faults)
                    => n \in Range(all_reports[k].rules)

\* C25 as stated: in every stage an artifact whose name fails matches gets
\* no delete call and is not reported as planned or deleted.
C25_FilterEveryStage ==
    /\ \A i \in DOMAIN calls :
          Mutating(i) => matches(calls[i].name, args.include, args.exclude)
    /\ \A rep \in Reported : \A op \in StageOps :
          \A n \in ReportedNames(rep, op) :
              matches(n, args.include, args.exclude)

\* C25 as amended: the include / exclude filter applies to the rule stage
\* alone: a rule whose name fails matches gets no delete call and is not
\* reported; remediation configurations, conformance packs, recorders and
\* delivery channels are reported (dry run) or sent a delete call (live run)
\* whenever their listing returned them, whatever the filter says.
C25_FilterRulesOnly ==
    /\ \A i \in DOMAIN calls :
          calls[i].op = RuleOp
              => matches(calls[i].name, args.include, args.exclude)
    /\ \A rep \in Reported : \A n \in Range(rep.rules) :
          matches(n, args.include, args.exclude)
    /\ \A k \in DOMAIN all_reports : \A op \in StageOps \ {RuleOp} :
          \A n \in Returned(all_reports[k].region, op) :
              IF args.dry_run
              THEN n \in ReportedNames(all_reports[k], op)
              ELSE DeleteCalls(all_reports[k].region, op, n) >= 1

C25_Witness ==
    /\ pc = "done"
    /\ ~args.dry_run
    /\ args.include = <<P_rule_star>>
    /\ ~matches(N_y1, args.include, args.exclude)
    /\ N_y1 \in Inventory("r1", RuleOp)
    /\ DeleteCalls("r1", RuleOp, N_y1) = 0
    /\ DeleteCalls("r1", RuleOp, N_rule_abc) = 1
    /\ DeleteCalls("r1", PackOp, N_y1) = 1
    /\ N_y1 \in Range(report_file[1].conformance_packs)

\* the run of main before this one
LastRun == runs[Len(runs)]

\* the names region r's delete calls of one kind went to in this run
DeleteTargets(r, op) ==
    {calls[i].name : i \in {j \in DOMAIN calls : calls[j].region = r /\ calls[j].op = op}}

\* C26: a dry run followed by a live run over the inventory the dry run
\* left, with the same filters: for every kind the names the dry run
\* reported are exactly the names the live run sends a delete call to.
C26_DryRunFidelity ==
    (/\ pc = "done"
     /\ runs # <<>>
     /\ LastRun.argv.dry_run
     /\ ~args.dry_run)
        => /\ LastRun.after = remote0
           /\ \A k \in DOMAIN LastRun.report_file : \A op \in StageOps :
                 ReportedNames(LastRun.report_file[k], op)
                     = DeleteTargets(LastRun.report_file[k].region, op)
           /\ \A i \in DOMAIN calls :
                 Mutating(i) =>
                     \E k \in DOMAIN LastRun.report_file :
                         LastRun.report_file[k].region = calls[i].region

C26_Witness ==
    /\ pc = "done"
    /\ runs # <<>>
    /\ LastRun.argv.dry_run
    /\ ~args.dry_run
    /\ args.exclude = <<P_rule_abc>>
    /\ LastRun.report_file # <<>>
    /\ Range(LastRun.report_file[1].rules) = {N_securityhub_x, N_y1}
    /\ DeleteTargets("r1", RuleOp) = {N_securityhub_x, N_y1}
    /\ DeleteTargets("r1", PackOp) = {N_y1, N_x}
    /\ DeleteTargets("r1", RecorderOp) = {N_default}
    /\ \E f \in faults : f.op = RuleOp /\ f.how = "denied"

\* the rules list_config_rules counts as Security Hub managed in region r
CountedSecurityHub(r) ==
    Range(list_config_rules(r, remote0[r]).security_hub_rules)

\* lister and rule stage agree on the rule n of region r
ListerAgreesWithStage(r, n) ==
    (n \in CountedSecurityHub(r)) <=> (DeleteCalls(r, RuleOp, n) = 0)

\* C27: in a healthy live run without filters, a listed rule is counted as
\* Security Hub managed by list_config_rules exactly when the rule stage
\* sends it no delete call, and that is exactly when its name has the
\* reserved prefix.
C27_ClassificationConsistent ==
    (~args.dry_run /\ faults = {} /\ args.include = <<>> /\ args.exclude = <<>>) =>
        \A k \in DOMAIN all_reports :
            \A n \in Inventory(all_reports[k].region, RuleOp) :
                /\ ListerAgreesWithStage(all_reports[k].region, n)
                /\ (n \in CountedSecurityHub(all_reports[k].region))
                      <=> IsSecurityHubRule(n)

\* the listing call that returns the artifacts a delete call of op goes to
ListOpOf(op) ==
    CASE op = RuleOp -> "describe_config_rules"
      [] op = RemediationOp -> "describe_remediation_configurations"
      [] op = PackOp -> "describe_conformance_packs"
      [] op = RecorderOp -> "describe_configuration_recorders"
      [] op = ChannelOp -> "describe_delivery_channels"
      [] OTHER -> "none"

\* C28: every delete call goes to a name that a listing call of its kind,
\* made before it in the same region in this run, returned; every name a
\* report lists was returned by the listing of its kind in that region.
C28_OnlyListedActedOn ==
    /\ \A i \in DOMAIN calls :
          Mutating(i) =>
              /\ calls[i].name \in Returned(calls[i].region, calls[i].op)
              /\ \E j \in DOMAIN calls :
                    /\ j < i
                    /\ calls[j].region = calls[i].region
                    /\ calls[j].op = ListOpOf(calls[i].op)
    /\ \A rep \in Reported : \A op \in StageOps :
          \A n \in ReportedNames(rep, op) : n \in Returned(rep.region, op)

C28_Witness ==
    /\ pc = "done"
    /\ ~args.dry_run
    /\ Raises("describe_delivery_channels", <<"1">>)
    /\ remote0["r1"].channels = <<N_default>>
    /\ DeleteTargets("r1", ChannelOp) = {}
    /\ DeleteTargets("r1", RecorderOp) = {N_default}
    /\ DeleteTargets("r1", PackOp) = {N_y1, N_x}
    /\ ReportedNames(report_file[1], PackOp) = {N_y1, N_x}
    /\ N_rule_abc \in Range(remote["r1"].packs)

\* region_reset holds its client for region r and is about to list the rules
Sequencing(r) == InRegion("list_rules") /\ region = r

\* region_reset returned a report for region r to main
ReportReturned(r) == \E k \in DOMAIN all_reports : all_reports[k].region = r

\* C29: once region_reset has its client, it comes to its end and returns
\* the region's report, whatever deletes and listings fail and whatever
\* retries run out on the way.
C29_DoneAlwaysReached ==
    \A r \in RegionIds : Sequencing(r) ~> ReportReturned(r)

C29_Witness ==
    /\ ReportReturned("r1")
    /\ Fault(RuleOp, N_rule_abc, "throttled") \in faults
    /\ DeleteCalls("r1", RuleOp, N_rule_abc) = DEFAULT_MAX_RETRIES
    /\ N_rule_abc \notin Range(all_reports[1].rules)
    /\ N_y1 \in Range(all_reports[1].rules)

RECURSIVE SumSeq(_)
SumSeq(q) == IF q = <<>> THEN 0 ELSE Head(q) + SumSeq(Tail(q))

\* 1 + 2 + ... + n
Triangle(n) == (n * (n + 1)) \div 2

\* C30: the sleep after failed attempt n is backoff * n; there is one sleep
\* between two attempts and none after the last one, so running out of
\* max_retries attempts has slept backoff * (1 + ... + (max_retries - 1)),
\* which is 30 for the defaults.
C30_LinearBackoff ==
    /\ \A n \in DOMAIN rc.sleeps : rc.sleeps[n] = rc.backoff * n
    /\ rc.status = "running" => Len(rc.sleeps) = rc.calls
    /\ rc.status \in {"returned", "raised"} => Len(rc.sleeps) = rc.calls - 1
    /\ (rc.status = "raised" /\ rc.calls = rc.max_retries
        /\ AllTransient(rc.outcomes)) =>
          /\ SumSeq(rc.sleeps) = rc.backoff * Triangle(rc.max_retries - 1)
          /\ (rc.max_retries = DEFAULT_MAX_RETRIES
              /\ rc.backoff = DEFAULT_BACKOFF_SEC) => SumSeq(rc.sleeps) = 30

C30_Witness ==
    /\ rc.max_retries = DEFAULT_MAX_RETRIES
    /\ rc.backoff = DEFAULT_BACKOFF_SEC
    /\ rc.status = "raised"
    /\ rc.calls = 5
    /\ AllTransient(rc.outcomes)
    /\ rc.sleeps = <<3, 6, 9, 12>>

\* how often the report lists n for one kind
TimesReported(rep, op, n) ==
    CASE op = RuleOp -> Cardinality({i \in DOMAIN rep.rules : rep.rules[i] = n})
      [] op = RemediationOp ->
            Cardinality({i \in DOMAIN rep.remediations : rep.remediations[i] = n})
      [] op = PackOp ->
            Cardinality({i \in DOMAIN rep.conformance_packs :
                            rep.conformance_packs[i] = n})
      [] op = RecorderOp ->
            Cardinality({i \in DOMAIN rep.recorders_channels :
                            rep.recorders_channels[i] = Item("recorder", n)})
      [] op = ChannelOp ->
            Cardinality({i \in DOMAIN rep.recorders_channels :
                            rep.recorders_channels[i] = Item("channel", n)})
      [] OTHER -> 0

\* C31: a name the listing of a kind gives more than once is one candidate:
\* a report lists it at most once, and the run sends it at most one delete
\* (retried only while the provider answers busy or throttled).
C31_DeduplicatedByName ==
    \A k \in DOMAIN all_reports : \A op \in StageOps :
        \A n \in Returned(all_reports[k].region, op) :
            /\ TimesReported(all_reports[k], op, n) <= 1
            /\ DeleteCalls(all_reports[k].region, op, n) <= AttemptsFor(op, n)

====
